---------------------------- MODULE Spec2Model ----------------------------
(***************************************************************************)
(* Electronics Workbench (streamlit_electronics_workbench.py).             *)
(*                                                                         *)
(* The session state of the workbench (placed components, connections,    *)
(* the id counter and the stored analysis result) and the button handlers *)
(* of main() that change it, together with calculate_circuit_parameters.  *)
(* Every click re-runs the script once; one action below is one such run  *)
(* with exactly one button reporting a click.  What a run reports to the  *)
(* user (st.success, st.warning, st.error, or an exception that ends the   *)
(* run) is the notice of its outcome; it is not kept in the session.       *)
(*                                                                         *)
(* Numbers are Python floats in the program; here they are exact          *)
(* rationals n/d (d > 0, lowest terms), so float rounding is not modelled. *)
(* Python dicts are functions from key strings to values; the values kept  *)
(* in them are immutable, so a dict.copy() is the same function.  issued   *)
(* is a history variable: the program keeps no such record.                *)
(***************************************************************************)
EXTENDS Integers, Sequences, FiniteSets, TLC

VARIABLES
    circuit_components,   \* st.session_state.circuit_components
    connections,          \* st.session_state.connections
    analysis_results,     \* st.session_state.analysis_results
    component_counter,    \* st.session_state.component_counter
    issued                \* history: every id value handed out in this session

vars == <<circuit_components, connections, analysis_results, component_counter, issued>>

\* ---------------------------------------------------------------- bounds
MaxComponents == 2
MaxConnections == 2

\* ---------------------------------------------------------------- values
RECURSIVE GCD(_, _)
GCD(a, b) == IF b = 0 THEN a ELSE GCD(b, a % b)

Abs(a) == IF a < 0 THEN -a ELSE a

\* the float n/d, n/d in lowest terms
Lit(n, d) == [kind |-> "num", n |-> n, d |-> d]

\* the float n/d
Num(n, d) == Lit(n \div GCD(Abs(n), d), d \div GCD(Abs(n), d))

Str(s) == [kind |-> "str", s |-> s]

Inf == [kind |-> "inf"]

EmptyDict == [k \in {} |-> 0]

Add(a, b) == Num(a.n * b.d + b.n * a.d, a.d * b.d)

Mul(a, b) == Num(a.n * b.n, a.d * b.d)

\* a / b for b # 0
Div(a, b) == IF b.n < 0 THEN Num(-(a.n * b.d), a.d * (-b.n))
                        ELSE Num(a.n * b.d, a.d * b.n)

IsZero(a) == a.n = 0

Positive(a) == a.n > 0

\* dict.get(key, default)
Get(dict, key, default) == IF key \in DOMAIN dict THEN dict[key] ELSE default

\* Python truth value of a parameter value
Truthy(v) == IF v.kind = "str" THEN v.s # "" ELSE IF v.kind = "num" THEN v.n # 0 ELSE TRUE

\* ---------------------------------------------------------------- catalog
ComponentTypes ==
    {"Resistor", "Capacitor", "Inductor", "Diode", "LED", "Transistor (NPN)",
     "Battery", "AC Source", "Ground", "Switch", "Ammeter", "Voltmeter", "Load"}

DefaultParams(type) ==
    CASE type = "Resistor" ->
            [resistance |-> Lit(1000, 1), power_rating |-> Lit(1, 4), tolerance |-> Lit(5, 1)]
      [] type = "Capacitor" ->
            [capacitance |-> Lit(1, 10000), voltage_rating |-> Lit(25, 1), type |-> Str("Ceramic")]
      [] type = "Inductor" ->
            [inductance |-> Lit(1, 1000), current_rating |-> Lit(1, 1), resistance |-> Lit(1, 10)]
      [] type = "Diode" ->
            [forward_voltage |-> Lit(7, 10), max_current |-> Lit(1, 1), reverse_voltage |-> Lit(50, 1)]
      [] type = "LED" ->
            [forward_voltage |-> Lit(2, 1), forward_current |-> Lit(1, 50), color |-> Str("Red")]
      [] type = "Transistor (NPN)" ->
            [beta |-> Lit(100, 1), vbe |-> Lit(7, 10), vce_sat |-> Lit(1, 5)]
      [] type = "Battery" ->
            [voltage |-> Lit(9, 1), capacity |-> Lit(1000, 1), internal_resistance |-> Lit(1, 10)]
      [] type = "AC Source" ->
            [voltage_rms |-> Lit(120, 1), frequency |-> Lit(50, 1), phase |-> Lit(0, 1)]
      [] type = "Ground" -> EmptyDict
      [] type = "Switch" ->
            [state |-> Str("Open"), contact_resistance |-> Lit(1, 100)]
      [] type = "Ammeter" ->
            [range |-> Lit(1, 1), reading |-> Lit(0, 1), accuracy |-> Lit(1, 1)]
      [] type = "Voltmeter" ->
            [range |-> Lit(10, 1), reading |-> Lit(0, 1), accuracy |-> Lit(1, 1)]
      [] type = "Load" ->
            [power |-> Lit(100, 1), voltage |-> Lit(12, 1), type |-> Str("Resistive")]

COMPONENTS == [type \in ComponentTypes |-> [params |-> DefaultParams(type)]]

\* ---------------------------------------------------------------- labels
\* A string is a sequence of tokens: "(" and ")" are tokens of their own and
\* every other token is a run of characters holding no parenthesis.
TypeName(type) ==
    IF type = "Transistor (NPN)" THEN <<"Transistor ", "(", "NPN", ")">> ELSE <<type>>

\* f"{c['type']} ({c['id']})"
Label(c) == TypeName(c.type) \o <<" ", "(", ToString(c.id), ")">>

\* s.split(sep): the pieces of s between the occurrences of sep
RECURSIVE Split(_, _)
Split(s, sep) ==
    IF \A i \in 1..Len(s) : s[i] # sep
    THEN <<s>>
    ELSE LET i == CHOOSE i \in 1..Len(s) : s[i] = sep /\ \A j \in 1..(i-1) : s[j] # sep
         IN  <<SubSeq(s, 1, i - 1)>> \o Split(SubSeq(s, i + 1, Len(s)), sep)

ValueError == -1

\* int(text): the number a decimal numeral denotes, ValueError for any other text
Int_(text) ==
    IF Len(text) = 1 /\ \E n \in 0..(MaxComponents + 1) : ToString(n) = text[1]
    THEN CHOOSE n \in 0..(MaxComponents + 1) : ToString(n) = text[1]
    ELSE ValueError

\* int(label.split('(')[1].split(')')[0])
ParseId(label) == Int_(Split(Split(label, "(")[2], ")")[1])

\* [f"{c['type']} ({c['id']})" for c in circuit_components]
comp_options == [i \in 1..Len(circuit_components) |-> Label(circuit_components[i])]

\* next(c for c in circuit_components if c['id'] == id) finds a component
Resolves(id) == \E i \in 1..Len(circuit_components) : circuit_components[i].id = id

\* ---------------------------------------------------------------- analysis
\* (n/d) * pi^e: the reactances carry a factor of pi or 1/pi
PiNum(n, d, e) ==
    [kind |-> "numpi", n |-> n \div GCD(Abs(n), d), d |-> d \div GCD(Abs(n), d), e |-> e]

Zero == Lit(0, 1)
One == Lit(1, 1)
Half == Lit(1, 2)

\* current = 0.001, the current a Resistor is assumed to carry
AssumedCurrent == Lit(1, 1000)

Square(a) == Mul(a, a)

\* What one component adds to the totals and its 'calculated' mapping;
\* raised names the exception its branch raises, "" when it raises none.
NoContribution ==
    [raised |-> "", has_calculated |-> FALSE, calculated |-> EmptyDict,
     total_resistance |-> Zero, total_capacitance |-> Zero, total_inductance |-> Zero,
     voltage_sources |-> <<>>, power_consumption |-> Zero]

\* if comp['type'] == 'Resistor'
ResistorBranch(resistance) ==
    [NoContribution EXCEPT
        !.total_resistance = resistance,
        !.has_calculated = TRUE,
        !.calculated = [power_dissipated |-> Mul(Square(AssumedCurrent), resistance),
                        voltage_drop |-> Mul(AssumedCurrent, resistance)]]

\* elif comp['type'] == 'Capacitor'
CapacitorBranch(capacitance, voltage_rating) ==
    [NoContribution EXCEPT
        !.total_capacitance = IF Positive(capacitance) THEN capacitance ELSE Zero,
        !.has_calculated = TRUE,
        !.calculated = [energy_stored |-> Mul(Mul(Half, capacitance), Square(voltage_rating)),
                        reactance_60hz |-> IF Positive(capacitance)
                                           THEN PiNum(capacitance.d, 120 * capacitance.n, -1)
                                           ELSE Inf]]

\* elif comp['type'] == 'Inductor'
InductorBranch(inductance, current_rating) ==
    [NoContribution EXCEPT
        !.total_inductance = inductance,
        !.has_calculated = TRUE,
        !.calculated = [energy_stored |-> Mul(Mul(Half, inductance), Square(current_rating)),
                        reactance_60hz |-> PiNum(120 * inductance.n, inductance.d, 1)]]

\* elif comp['type'] in ['Battery', 'AC Source'], past the choice of voltage
SourceBranch(voltage, internal_resistance) ==
    IF IsZero(internal_resistance)
    THEN [NoContribution EXCEPT !.raised = "ZeroDivisionError"]
    ELSE [NoContribution EXCEPT
            !.voltage_sources = <<voltage>>,
            !.has_calculated = TRUE,
            !.calculated = [max_power |-> Div(Square(voltage), internal_resistance)]]

\* current and resistance of a Load of voltage > 0
LoadCalculated(voltage, current) ==
    [current |-> current,
     resistance |-> IF Positive(current) THEN Div(voltage, current) ELSE Inf]

\* LoadBranch with the power counted under the voltage guard only
LoadBranch_PowerUnderGuard(power, voltage) ==
    IF Positive(voltage)
    THEN [NoContribution EXCEPT
            !.power_consumption = power,
            !.has_calculated = TRUE,
            !.calculated = LoadCalculated(voltage, Div(power, voltage))]
    ELSE NoContribution

\* elif comp['type'] == 'Load'
LoadBranch(power, voltage) ==
    IF Positive(voltage)
    THEN [NoContribution EXCEPT
            !.power_consumption = power,
            !.has_calculated = TRUE,
            !.calculated = LoadCalculated(voltage, Div(power, voltage))]
    ELSE [NoContribution EXCEPT !.power_consumption = power]

\* a or b
Or(a, b) == IF Truthy(a) THEN a ELSE b

\* Contribution with the winding resistance of an Inductor counted in
\* total_resistance
Contribution_CountsInductor(type, params) ==
    IF type = "Resistor" THEN ResistorBranch(Get(params, "resistance", Zero))
    ELSE IF type = "Capacitor" THEN
        CapacitorBranch(Get(params, "capacitance", Zero), Get(params, "voltage_rating", Zero))
    ELSE IF type = "Inductor" THEN
        [InductorBranch(Get(params, "inductance", Zero), Get(params, "current_rating", Zero))
            EXCEPT !.total_resistance = Get(params, "resistance", Zero)]
    ELSE IF type \in {"Battery", "AC Source"} THEN
        SourceBranch(Or(Get(params, "voltage", Zero), Get(params, "voltage_rms", Zero)),
                     Get(params, "internal_resistance", One))
    ELSE IF type = "Load" THEN
        LoadBranch(Get(params, "power", Zero), Get(params, "voltage", Zero))
    ELSE NoContribution

\* the if/elif chain on comp['type']
Contribution(type, params) ==
    IF type = "Resistor" THEN ResistorBranch(Get(params, "resistance", Zero))
    ELSE IF type = "Capacitor" THEN
        CapacitorBranch(Get(params, "capacitance", Zero), Get(params, "voltage_rating", Zero))
    ELSE IF type = "Inductor" THEN
        InductorBranch(Get(params, "inductance", Zero), Get(params, "current_rating", Zero))
    ELSE IF type \in {"Battery", "AC Source"} THEN
        SourceBranch(Or(Get(params, "voltage", Zero), Get(params, "voltage_rms", Zero)),
                     Get(params, "internal_resistance", One))
    ELSE IF type = "Load" THEN
        LoadBranch(Get(params, "power", Zero), Get(params, "voltage", Zero))
    ELSE NoContribution

\* comp_analysis, the entry appended to results['component_analysis'];
\* 'parameters' is a copy of the component's params
ComponentAnalysis(comp, c) ==
    IF c.has_calculated
    THEN [id |-> comp.id, type |-> comp.type, parameters |-> comp.params,
          calculated |-> c.calculated]
    ELSE [id |-> comp.id, type |-> comp.type, parameters |-> comp.params]

\* results after the loop body has run for comp, c being comp's contribution
Accumulate(results, comp, c) ==
    [total_resistance |-> Add(results.total_resistance, c.total_resistance),
     total_capacitance |-> Add(results.total_capacitance, c.total_capacitance),
     total_inductance |-> Add(results.total_inductance, c.total_inductance),
     voltage_sources |-> results.voltage_sources \o c.voltage_sources,
     power_consumption |-> Add(results.power_consumption, c.power_consumption),
     component_analysis |-> Append(results.component_analysis, ComponentAnalysis(comp, c))]

\* sum(values)
RECURSIVE Sum(_)
Sum(values) == IF values = <<>> THEN Zero ELSE Add(values[1], Sum(Tail(values)))

\* the results dict before the loop
InitialResults ==
    [total_resistance |-> Zero, total_capacitance |-> Zero, total_inductance |-> Zero,
     voltage_sources |-> <<>>, power_consumption |-> Zero, component_analysis |-> <<>>]

RECURSIVE AnalysisLoop(_, _, _)
\* the for loop over the components, from the k-th on
AnalysisLoop(components, k, results) ==
    IF k > Len(components) THEN [raised |-> "", results |-> results]
    ELSE IF Contribution(components[k].type, components[k].params).raised # ""
    THEN [raised |-> Contribution(components[k].type, components[k].params).raised,
          results |-> results]
    ELSE AnalysisLoop(components, k + 1,
            Accumulate(results, components[k],
                       Contribution(components[k].type, components[k].params)))

\* Overall with both keys set to 0 when the condition fails
Overall_ZeroWhenAbsent(results, total_voltage) ==
    IF results.voltage_sources # <<>> /\ Positive(results.total_resistance)
    THEN results @@
         [circuit_current |-> Div(total_voltage, results.total_resistance),
          total_power |-> Mul(total_voltage, Div(total_voltage, results.total_resistance))]
    ELSE results @@ [circuit_current |-> Zero, total_power |-> Zero]

\* the overall circuit calculations on the results of the loop
Overall(results, total_voltage) ==
    IF results.voltage_sources # <<>> /\ Positive(results.total_resistance)
    THEN results @@
         [circuit_current |-> Div(total_voltage, results.total_resistance),
          total_power |-> Mul(total_voltage, Div(total_voltage, results.total_resistance))]
    ELSE results

\* the end of the call, loop being the outcome of the for loop
Return(loop) ==
    IF loop.raised # "" THEN loop
    ELSE [raised |-> "", results |-> Overall(loop.results, Sum(loop.results.voltage_sources))]

\* calculate_circuit_parameters() run on the given component list: the
\* results dict, or the exception that ends the call
calculate_circuit_parameters(components) == Return(AnalysisLoop(components, 1, InitialResults))

\* ---------------------------------------------------------------- inputs
\* positions offered by the two number inputs (the widgets' default is 2.0)
XPositions == {Lit(2, 1)}
YPositions == {Lit(2, 1)}

\* the component types the user picks in the sessions explored
PickedTypes == {"Resistor", "Battery", "Transistor (NPN)"}
WiringTypes == {"Resistor", "Battery", "Transistor (NPN)"}

\* the options the user selects in the From and To boxes in the sessions of Spec
WiredOptions == 1..(IF Len(circuit_components) < 2 THEN Len(circuit_components) ELSE 2)

\* the values the user types into the field of a parameter in the sessions
\* explored; a field left alone returns the parameter's current value
Typed(param) ==
    CASE param = "resistance" -> {Lit(2000, 1)}
      [] param = "internal_resistance" -> {Lit(0, 1)}
      [] OTHER -> {}

\* float(value)
Float(value) == value

\* what the field of one parameter can return: st.text_input for a string,
\* st.number_input(value=float(value)) for a number
FieldValues(param, value) ==
    IF value.kind = "str"
    THEN {value} \cup {v \in Typed(param) : v.kind = "str"}
    ELSE {Float(value)} \cup {v \in Typed(param) : v.kind = "num"}

\* the new_params dicts the loop over component['params'].items() can build
NewParams(params) ==
    {np \in [DOMAIN params -> UNION {FieldValues(p, params[p]) : p \in DOMAIN params}] :
        \A p \in DOMAIN params : np[p] \in FieldValues(p, params[p])}

\* the component types placed in the circuits whose analysis is examined
AnalyzedTypes == {"Resistor", "Capacitor", "Inductor", "Switch", "Battery", "AC Source", "Load"}

\* the values typed into the field of a parameter before those analyses
Entered(param) ==
    CASE param = "resistance" -> {Lit(2000, 1), Lit(0, 1), Lit(-1000, 1)}
      [] param = "capacitance" -> {Lit(0, 1)}
      [] param = "voltage" -> {Lit(0, 1)}
      [] param = "voltage_rms" -> {Lit(0, 1)}
      [] param = "internal_resistance" -> {Lit(0, 1)}
      [] param = "power" -> {Lit(0, 1)}
      [] OTHER -> {}

\* what one field holds after at most one update: the catalog default or a
\* value typed over it
EnteredValues(param, value) ==
    IF value.kind = "str" THEN {value} ELSE {Float(value)} \cup Entered(param)

\* the params a placed instance of the type can have after at most one update
EnteredParams(params) ==
    {np \in [DOMAIN params -> UNION {EnteredValues(p, params[p]) : p \in DOMAIN params}] :
        \A p \in DOMAIN params : np[p] \in EnteredValues(p, params[p])}

\* the (type, params) pairs of those instances
PlacedInstances ==
    UNION {{[type |-> t, params |-> np] : np \in EnteredParams(DefaultParams(t))} :
           t \in AnalyzedTypes}

\* the component lists n clicks on "Add Component" and updates of the
\* instances leave: ids 1..n in order, the widgets' default position
PlacedCircuits(n) ==
    {[i \in 1..n |-> [id |-> i, type |-> f[i].type, x |-> Lit(2, 1), y |-> Lit(2, 1),
                      params |-> f[i].params]] : f \in [1..n -> PlacedInstances]}

\* ---------------------------------------------------------------- state
Init ==
    /\ circuit_components = <<>>
    /\ connections = <<>>
    /\ analysis_results = EmptyDict
    /\ component_counter = 0
    /\ issued = {}

\* AddComponent with the counter left as it was
AddComponent_NoIncrement(selected_component, x_pos, y_pos) ==
    /\ Len(circuit_components) < MaxComponents
    /\ component_counter' = component_counter
    /\ circuit_components' = Append(circuit_components,
            [id |-> component_counter + 1, type |-> selected_component,
             x |-> x_pos, y |-> y_pos,
             params |-> COMPONENTS[selected_component].params])
    /\ issued' = issued \cup {component_counter + 1}
    /\ UNCHANGED <<connections, analysis_results>>

\* "Add Component" clicked
AddComponent(selected_component, x_pos, y_pos) ==
    /\ Len(circuit_components) < MaxComponents
    /\ component_counter' = component_counter + 1
    /\ circuit_components' = Append(circuit_components,
            [id |-> component_counter', type |-> selected_component,
             x |-> x_pos, y |-> y_pos,
             params |-> COMPONENTS[selected_component].params])
    /\ issued' = issued \cup {component_counter'}
    /\ UNCHANGED <<connections, analysis_results>>

\* what "Connect Components" reports and leaves in st.session_state.connections
\* for the two selected labels
ConnectOutcome(from_comp, to_comp) ==
    LET from_id == ParseId(from_comp)
        to_id == ParseId(to_comp)
        connection == [from_comp |-> from_id, to_comp |-> to_id]
    IN  IF from_id = ValueError \/ to_id = ValueError
        THEN [notice |-> "ValueError", connections |-> connections]
        ELSE IF from_id # to_id
        THEN IF \A k \in 1..Len(connections) : connections[k] # connection
             THEN [notice |-> "Connection created!",
                   connections |-> Append(connections, connection)]
             ELSE [notice |-> "Connection already exists!", connections |-> connections]
        ELSE [notice |-> "Cannot connect component to itself!", connections |-> connections]

\* "Connect Components" clicked with the i-th and j-th option selected
ConnectComponents(i, j) ==
    /\ Len(circuit_components) >= 2
    /\ LET out == ConnectOutcome(comp_options[i], comp_options[j])
       IN  /\ Len(out.connections) <= MaxConnections
           /\ connections' = out.connections
    /\ UNCHANGED <<circuit_components, analysis_results, component_counter, issued>>

\* ClearCircuit with the counter left as it was
ClearCircuit_KeepsCounter ==
    /\ circuit_components' = <<>>
    /\ connections' = <<>>
    /\ UNCHANGED <<component_counter, analysis_results, issued>>

\* ClearCircuit with the connections left as they were
ClearCircuit_KeepsConnections ==
    /\ circuit_components' = <<>>
    /\ component_counter' = 0
    /\ UNCHANGED <<connections, analysis_results, issued>>

\* ClearCircuit that also empties the stored result
ClearCircuit_DropsResult ==
    /\ circuit_components' = <<>>
    /\ connections' = <<>>
    /\ component_counter' = 0
    /\ analysis_results' = EmptyDict
    /\ UNCHANGED issued

\* "Clear Circuit" clicked
ClearCircuit ==
    /\ circuit_components' = <<>>
    /\ connections' = <<>>
    /\ component_counter' = 0
    /\ UNCHANGED <<analysis_results, issued>>

\* what "Analyze Circuit" reports and leaves in st.session_state.analysis_results,
\* call being the outcome of calculate_circuit_parameters()
Analyzed(call) ==
    IF call.raised = ""
    THEN [notice |-> "Analysis complete!", analysis_results |-> call.results]
    ELSE [notice |-> call.raised, analysis_results |-> analysis_results]

AnalyzeOutcome ==
    IF circuit_components # <<>>
    THEN Analyzed(calculate_circuit_parameters(circuit_components))
    ELSE [notice |-> "Add components to analyze!", analysis_results |-> analysis_results]

\* "Analyze Circuit" clicked
AnalyzeCircuit ==
    /\ analysis_results' = AnalyzeOutcome.analysis_results
    /\ UNCHANGED <<circuit_components, connections, component_counter, issued>>

\* the index of next(c for c in circuit_components if c['id'] == comp_id)
FirstWithId(comp_id) ==
    CHOOSE i \in 1..Len(circuit_components) :
        /\ circuit_components[i].id = comp_id
        /\ \A j \in 1..(i - 1) : circuit_components[j].id # comp_id

\* UpdateParameters writing into a dict the stored result shares
UpdateParameters_Aliased(k, new_params) ==
    /\ circuit_components # <<>>
    /\ LET comp_id == ParseId(comp_options[k])
       IN  /\ comp_id # ValueError
           /\ Resolves(comp_id)
           /\ circuit_components' =
                [circuit_components EXCEPT ![FirstWithId(comp_id)].params = new_params]
           /\ analysis_results' =
                IF "component_analysis" \in DOMAIN analysis_results
                THEN [analysis_results EXCEPT !.component_analysis =
                        [e \in DOMAIN analysis_results.component_analysis |->
                            IF analysis_results.component_analysis[e].id = comp_id
                            THEN [analysis_results.component_analysis[e]
                                    EXCEPT !.parameters = new_params]
                            ELSE analysis_results.component_analysis[e]]]
                ELSE analysis_results
    /\ UNCHANGED <<connections, component_counter, issued>>

\* UpdateParameters writing to every component of the selected one's type
UpdateParameters_ByType(k, new_params) ==
    /\ circuit_components # <<>>
    /\ LET comp_id == ParseId(comp_options[k])
       IN  /\ comp_id # ValueError
           /\ Resolves(comp_id)
           /\ circuit_components' =
                [i \in DOMAIN circuit_components |->
                    IF circuit_components[i].type = circuit_components[FirstWithId(comp_id)].type
                    THEN [circuit_components[i] EXCEPT !.params = new_params]
                    ELSE circuit_components[i]]
    /\ UNCHANGED <<connections, analysis_results, component_counter, issued>>

\* "Update Parameters" clicked with the k-th option selected for editing and
\* the fields holding new_params.  The button is drawn only when the id of
\* the selected label parses.
UpdateParameters(k, new_params) ==
    /\ circuit_components # <<>>
    /\ LET comp_id == ParseId(comp_options[k])
       IN  /\ comp_id # ValueError
           /\ Resolves(comp_id)
           /\ circuit_components' =
                [circuit_components EXCEPT ![FirstWithId(comp_id)].params = new_params]
    /\ UNCHANGED <<connections, analysis_results, component_counter, issued>>

\* ---------------------------------------------------------------- behaviours
\* A session in which components are placed, edited and analysed and the
\* first two of them are wired.
Next ==
    \/ \E t \in PickedTypes, x \in XPositions, y \in YPositions : AddComponent(t, x, y)
    \/ \E i, j \in WiredOptions : ConnectComponents(i, j)
    \/ ClearCircuit
    \/ AnalyzeCircuit
    \/ \E k \in 1..Len(circuit_components) :
         \E new_params \in NewParams(circuit_components[k].params) : UpdateParameters(k, new_params)

Spec == Init /\ [][Next]_vars

\* A session in which components are placed and wired in every way the two
\* select boxes allow.
NextWiring ==
    \/ \E t \in WiringTypes, x \in XPositions, y \in YPositions : AddComponent(t, x, y)
    \/ \E i, j \in 1..Len(circuit_components) : ConnectComponents(i, j)
    \/ ClearCircuit
    \/ AnalyzeCircuit

SpecWiring == Init /\ [][NextWiring]_vars

\* A session taken up after the circuit has been placed and edited: the only
\* clicks left are on "Analyze Circuit".
InitAnalysis ==
    /\ circuit_components \in UNION {PlacedCircuits(n) : n \in 0..MaxComponents}
    /\ connections = <<>>
    /\ analysis_results = EmptyDict
    /\ component_counter = Len(circuit_components)
    /\ issued = 1..Len(circuit_components)

NextAnalysis == AnalyzeCircuit

SpecAnalysis == InitAnalysis /\ [][NextAnalysis]_vars

\* ---------------------------------------------------------------- properties
\* C1: the components in the circuit carry the ids 1..N in insertion order,
\* N being the number added since the last clear (the counter), whatever their
\* types; so the first component added after a clear has id 1.
C1_IdsAreOneToN ==
    /\ component_counter = Len(circuit_components)
    /\ \A i \in 1..Len(circuit_components) : circuit_components[i].id = i

\* a first component added after a clear: ids 1 and 2 were handed out before
C1_Witness ==
    /\ Len(circuit_components) = 1
    /\ circuit_components[1].id = 1
    /\ issued = {1, 2}

\* C2 as stated: an id value is never handed to a second instance, not even
\* after a clear: whenever a component is added, its id was never issued before.
C2_NeverReused ==
    [][Len(circuit_components') > Len(circuit_components)
        => circuit_components'[Len(circuit_components')].id \notin issued]_vars

\* C2 as amended: ids are positive, unique within the circuit and strictly
\* increasing in insertion order (a clear restarts the allocation).
C2_UniqueAndIncreasing ==
    /\ \A i \in 1..Len(circuit_components) : circuit_components[i].id > 0
    /\ \A i, j \in 1..Len(circuit_components) :
          i < j => circuit_components[i].id < circuit_components[j].id

\* two instances of one type side by side, told apart by their ids only
C2_Witness ==
    /\ Len(circuit_components) = 2
    /\ circuit_components[1].type = circuit_components[2].type
    /\ circuit_components[1].params = circuit_components[2].params

\* C3: every connection's two ends are ids of components in the circuit, so
\* the renderer's lookup of either end finds a component.
C3_NoDanglingConnection ==
    \A k \in 1..Len(connections) :
        Resolves(connections[k].from_comp) /\ Resolves(connections[k].to_comp)

\* a circuit holding connections in both directions
C3_Witness ==
    /\ Len(connections) = 2
    /\ connections[1].from_comp = connections[2].to_comp

\* C4: connecting any component to itself is refused as a self-connection and
\* leaves the connections as they were; no connection joins an id to itself.
C4_SelfConnectionRefused ==
    /\ Len(circuit_components) >= 2 =>
          \A i \in 1..Len(circuit_components) :
              LET out == ConnectOutcome(comp_options[i], comp_options[i])
              IN  /\ out.notice = "Cannot connect component to itself!"
                  /\ out.connections = connections
    /\ \A k \in 1..Len(connections) : connections[k].from_comp # connections[k].to_comp

\* C5: for two different components a and b, connecting a to b is refused as
\* a duplicate exactly when the ordered pair (a, b) is already there and
\* otherwise appends it, (b, a) being there or not; no ordered pair occurs twice.
C5_DuplicateIsOrderedPair ==
    /\ Len(circuit_components) >= 2 =>
          \A i, j \in 1..Len(circuit_components) :
              i # j =>
                LET out == ConnectOutcome(comp_options[i], comp_options[j])
                    pair == [from_comp |-> circuit_components[i].id,
                             to_comp |-> circuit_components[j].id]
                IN  IF \E k \in 1..Len(connections) : connections[k] = pair
                    THEN /\ out.notice = "Connection already exists!"
                         /\ out.connections = connections
                    ELSE /\ out.notice = "Connection created!"
                         /\ out.connections = Append(connections, pair)
    /\ \A k, l \in 1..Len(connections) : k # l => connections[k] # connections[l]

\* C6: a step that removes components removes them all, empties the connections,
\* sets the counter to 0 and leaves the stored result as it was; clearing is
\* possible in every state.
C6_ClearKeepsResult ==
    /\ [][Len(circuit_components') < Len(circuit_components)
            => /\ circuit_components' = <<>>
               /\ connections' = <<>>
               /\ component_counter' = 0
               /\ analysis_results' = analysis_results]_vars
    /\ [](ENABLED ClearCircuit)

\* a cleared circuit with the result of an earlier analysis still stored
C6_Witness ==
    /\ circuit_components = <<>>
    /\ connections = <<>>
    /\ component_counter = 0
    /\ analysis_results # EmptyDict

\* C7: whenever the circuit holds components, a click on "Analyze Circuit"
\* completes and stores the analysis of the current circuit.
C7_AnalysisAlwaysFresh ==
    circuit_components # <<>> =>
        /\ AnalyzeOutcome.notice = "Analysis complete!"
        /\ calculate_circuit_parameters(circuit_components).raised = ""
        /\ AnalyzeOutcome.analysis_results =
              calculate_circuit_parameters(circuit_components).results

\* C8: a step that changes the components, the connections or the counter
\* leaves the stored result, entries and totals, as it was.
C8_ResultIsSnapshot ==
    [][(\/ circuit_components' # circuit_components
        \/ connections' # connections
        \/ component_counter' # component_counter)
        => analysis_results' = analysis_results]_vars

\* a stored entry whose parameters differ from those its component has now
C8_Witness ==
    /\ "component_analysis" \in DOMAIN analysis_results
    /\ \E e \in 1..Len(analysis_results.component_analysis) :
         \E i \in 1..Len(circuit_components) :
            /\ circuit_components[i].id = analysis_results.component_analysis[e].id
            /\ circuit_components[i].type = analysis_results.component_analysis[e].type
            /\ circuit_components[i].params # analysis_results.component_analysis[e].parameters

\* C9: a new instance starts with its type's catalog defaults and leaves the
\* others as they were; an update changes the params of one instance only.
C9_ParamsAreIndependent ==
    /\ [][Len(circuit_components') > Len(circuit_components)
            => /\ Len(circuit_components') = Len(circuit_components) + 1
               /\ circuit_components'[Len(circuit_components')].params =
                    DefaultParams(circuit_components'[Len(circuit_components')].type)
               /\ \A i \in 1..Len(circuit_components) :
                    circuit_components'[i] = circuit_components[i]]_vars
    /\ [][Len(circuit_components') = Len(circuit_components)
            => \A i, j \in 1..Len(circuit_components) :
                  (/\ circuit_components'[i] # circuit_components[i]
                   /\ circuit_components'[j] # circuit_components[j]) => i = j]_vars

\* two instances of one type, one edited and one holding the catalog defaults
C9_Witness ==
    /\ Len(circuit_components) = 2
    /\ circuit_components[1].type = circuit_components[2].type
    /\ circuit_components[1].params # DefaultParams(circuit_components[1].type)
    /\ circuit_components[2].params = DefaultParams(circuit_components[2].type)

\* C11: for every circuit the handlers can build, parameters updated to 0
\* included, calculate_circuit_parameters() returns a result and raises no
\* exception.
C11_AnalyzeIsTotal ==
    calculate_circuit_parameters(circuit_components).raised = ""

\* C12: a stored result has circuit_current and total_power exactly when it
\* has a voltage source and total_resistance > 0; then circuit_current is
\* sum(voltage_sources) / total_resistance and total_power is
\* sum(voltage_sources) * circuit_current; otherwise both keys are absent.
C12_CurrentAndPowerPresence ==
    analysis_results # EmptyDict =>
        /\ "circuit_current" \in DOMAIN analysis_results
              <=> (/\ analysis_results.voltage_sources # <<>>
                   /\ analysis_results.total_resistance.n > 0)
        /\ "total_power" \in DOMAIN analysis_results
              <=> "circuit_current" \in DOMAIN analysis_results
        /\ "circuit_current" \in DOMAIN analysis_results =>
              /\ analysis_results.circuit_current =
                    Div(Sum(analysis_results.voltage_sources), analysis_results.total_resistance)
              /\ analysis_results.total_power =
                    Mul(Sum(analysis_results.voltage_sources), analysis_results.circuit_current)

\* a stored result with a voltage source and a total resistance of 0, both
\* keys absent
C12_Witness ==
    /\ analysis_results # EmptyDict
    /\ analysis_results.voltage_sources # <<>>
    /\ \E i \in 1..Len(circuit_components) : circuit_components[i].type = "Resistor"
    /\ analysis_results.total_resistance = Lit(0, 1)
    /\ "circuit_current" \notin DOMAIN analysis_results
    /\ "total_power" \notin DOMAIN analysis_results

\* C13: in the stored result of the circuit, power_consumption is the sum of
\* the power of every Load, whatever its voltage, and the entry of a Load has
\* a 'calculated' mapping, of current and resistance, exactly when the Load's
\* voltage is > 0.
C13_LoadPowerAlwaysCounted ==
    analysis_results # EmptyDict =>
        /\ analysis_results.power_consumption =
              Sum([i \in 1..Len(circuit_components) |->
                     IF circuit_components[i].type = "Load"
                     THEN circuit_components[i].params.power ELSE Lit(0, 1)])
        /\ \A i \in 1..Len(circuit_components) :
              circuit_components[i].type = "Load" =>
                 /\ "calculated" \in DOMAIN analysis_results.component_analysis[i]
                       <=> circuit_components[i].params.voltage.n > 0
                 /\ "calculated" \in DOMAIN analysis_results.component_analysis[i] =>
                       DOMAIN analysis_results.component_analysis[i].calculated =
                          {"current", "resistance"}

\* the stored result of a single Load of power 100.0 and voltage 0: no
\* 'calculated' key, power_consumption 100.0
C13_Witness ==
    /\ Len(circuit_components) = 1
    /\ circuit_components[1].type = "Load"
    /\ circuit_components[1].params.power = Lit(100, 1)
    /\ circuit_components[1].params.voltage = Lit(0, 1)
    /\ analysis_results # EmptyDict
    /\ "calculated" \notin DOMAIN analysis_results.component_analysis[1]
    /\ analysis_results.power_consumption = Lit(100, 1)

\* C14: the stored result of the circuit has one entry per component, in
\* circuit order; total_resistance is the sum of 'resistance' over the
\* Resistors only; voltage_sources has one entry per Battery or AC Source, in
\* circuit order, the Battery's voltage or the AC Source's voltage_rms.
C14_EntriesTotalsAndSources ==
    analysis_results # EmptyDict =>
        /\ Len(analysis_results.component_analysis) = Len(circuit_components)
        /\ \A i \in 1..Len(circuit_components) :
              /\ analysis_results.component_analysis[i].id = circuit_components[i].id
              /\ analysis_results.component_analysis[i].type = circuit_components[i].type
              /\ analysis_results.component_analysis[i].parameters = circuit_components[i].params
        /\ analysis_results.total_resistance =
              Sum([i \in 1..Len(circuit_components) |->
                     IF circuit_components[i].type = "Resistor"
                     THEN circuit_components[i].params.resistance ELSE Lit(0, 1)])
        /\ Len(analysis_results.voltage_sources) =
              Cardinality({i \in 1..Len(circuit_components) :
                              circuit_components[i].type \in {"Battery", "AC Source"}})
        /\ \A i \in 1..Len(circuit_components) :
              circuit_components[i].type \in {"Battery", "AC Source"} =>
                 analysis_results.voltage_sources[
                     Cardinality({j \in 1..i :
                                     circuit_components[j].type \in {"Battery", "AC Source"}})] =
                    IF circuit_components[i].type = "Battery"
                    THEN circuit_components[i].params.voltage
                    ELSE circuit_components[i].params.voltage_rms

\* the stored result of an AC Source followed by a Battery, with an entry for
\* each and the two voltages in that order
C14_Witness ==
    /\ Len(circuit_components) = 2
    /\ circuit_components[1].type = "AC Source"
    /\ circuit_components[2].type = "Battery"
    /\ analysis_results # EmptyDict
    /\ Len(analysis_results.component_analysis) = 2
    /\ analysis_results.voltage_sources = <<Lit(120, 1), Lit(9, 1)>>

=============================================================================
